---- MODULE Spec2Model ----
(***************************************************************************)
(* Model of the dice rolling engine (src/dice/roll.ts), of the parameter   *)
(* validation in front of it (src/dice/validation.ts) and of the two tool  *)
(* handlers roll_dice and roll_multiple (src/server.ts, the same loops as  *)
(* the /rpc branches of src/transports/http.ts), and of the HTTP transport  *)
(* in front of the engine (src/transports/http.ts): admission by client    *)
(* cap and rate limit, the active-clients store and the /rpc handler.      *)
(* The process runs one transport: the stdio tool handlers or HTTP.        *)
(*                                                                         *)
(* An optional parameter is a set: {} when the property is undefined, {v}  *)
(* when it is set to v.  A die is the DieResult record of the code.  The   *)
(* draws of Math.random are the nondeterministic inputs of the actions.    *)
(***************************************************************************)
EXTENDS Integers, Sequences, FiniteSets, TLC

VARIABLES
    tool,       \* name of the tool called: "roll_dice" or "roll_multiple"
    args,       \* arguments of the call, as received
    pc,         \* position of the handler
    i,          \* roll_multiple: outer loop index (repeat), 0-based
    j,          \* roll_multiple: position in rolls of the entry being rolled, 1-based
    dice,       \* rollDice: the local array dice
    results,    \* results collected by the handler
    response,   \* what the handler returns
    callLog,    \* for each invocation of rollDice, the position in rolls it was given
    transport,  \* "stdio" or "http": the transport the process was started with
    now,        \* http: Date.now(), in ms since the transport was created
    rateLimitStore,       \* http: clientId -> lastRequestTime
    activeClientsStore,   \* http: clientId -> [endpoint, connectedAt]
    sseOpen,    \* http: the clients whose /events connection is open
    pending,    \* http: clientId -> body of its /rpc request waiting at await import
    lastRpcAdmitted,      \* http: clientId -> time its last /rpc request passed admission
    reply       \* http: what the last handler step sent

engineVars == <<tool, args, pc, i, j, dice, results, response, callLog>>
httpVars == <<now, rateLimitStore, activeClientsStore, sseOpen, pending,
              lastRpcAdmitted, reply>>
vars == <<engineVars, transport, httpVars>>

-----------------------------------------------------------------------------
(* Bounds of the explored inputs *)

MaxDice == 3        \* largest dice_count
MaxSides == 3       \* largest dice_sides
MaxPips == 4        \* largest dice_count * dice_sides
MaxOptions == 3     \* optional parameters set in one roll configuration
MaxBurst == 1       \* short runs of maximum draws a die with several sides can get
MaxRolls == 2       \* roll_multiple: longest rolls list
MaxRepeat == 2      \* roll_multiple: largest count
MaxTicks == 3       \* http: steps of 100 ms the clock is followed for

(* Program constants *)

MAX_EXPLOSION_DEPTH == 10
RATE_LIMIT_MS == 200
MAX_CLIENTS == 100

-----------------------------------------------------------------------------
(* Optional values *)

Has(o) == o # {}
Get(o) == CHOOSE v \in o : TRUE
OrElse(o, d) == IF o # {} THEN CHOOSE v \in o : TRUE ELSE d
Opt(S) == {{}} \cup {{v} : v \in S}

NULL == "null"

-----------------------------------------------------------------------------
(* Helpers standing for the JavaScript array operations the code uses *)

Range(s) == {s[k] : k \in 1..Len(s)}

\* Math.max(...rolls)
MaxOf(rolls) == CHOOSE m \in Range(rolls) : \A x \in Range(rolls) : m >= x

RECURSIVE SumSeq(_)
\* rolls.reduce((a, b) => a + b, 0)
SumSeq(s) == IF s = <<>> THEN 0 ELSE s[1] + SumSeq(Tail(s))

\* Array.prototype.includes
includes(s, v) == \E k \in 1..Len(s) : s[k] = v

\* s[s.length - 1]
Last(s) == s[Len(s)]

-----------------------------------------------------------------------------
(* src/dice/roll.ts *)

\* rollSingleDie without the + 1
rollSingleDie_floorOnly(sides) == 0..(sides - 1)

\* The values one call of rollSingleDie(sides) can return:
\* Math.floor(Math.random() * sides) + 1 with Math.random() in [0, 1).
rollSingleDie(sides) == 1..sides

\* The array built by Array.from at the start of rollDice; draw[k] is the
\* value rollSingleDie returned for die k.
initialDice(dice_count, dice_sides, draw) ==
    [k \in 1..dice_count |->
        [die |-> k, sides |-> dice_sides, rolls |-> <<draw[k]>>,
         value |-> 0, kept |-> TRUE, special |-> NULL]]

\* The dice for which rerollDice calls rollSingleDie
rerollNeeded(d, rerollValues) ==
    {k \in 1..Len(d) : includes(rerollValues, d[k].rolls[1])}

\* rerollDice drawing a second time when the reroll is in the set again
rerollDice_again(d, rerollValues, draw) ==
    [k \in 1..Len(d) |->
        IF includes(rerollValues, d[k].rolls[1])
        THEN [d[k] EXCEPT !.rolls = IF includes(rerollValues, draw[k])
                                     THEN d[k].rolls \o <<draw[k], draw[k]>>
                                     ELSE Append(d[k].rolls, draw[k]),
                          !.special = "rerolled"]
        ELSE d[k]]

\* rerollDice; draw[k] is the value rollSingleDie returns for die k
rerollDice(d, rerollValues, draw) ==
    [k \in 1..Len(d) |->
        IF includes(rerollValues, d[k].rolls[1])
        THEN [d[k] EXCEPT !.rolls = Append(d[k].rolls, draw[k]),
                          !.special = "rerolled"]
        ELSE d[k]]

RECURSIVE explodeLoop_inclusiveCap(_, _, _, _)
\* explodeLoop with explosionCount <= MAX_EXPLOSION_DEPTH as loop condition
explodeLoop_inclusiveCap(currentRolls, sides, stream, explosionCount) ==
    IF Last(currentRolls) = sides /\ explosionCount <= MAX_EXPLOSION_DEPTH
    THEN explodeLoop_inclusiveCap(Append(currentRolls, stream[explosionCount + 1]),
                                  sides, stream, explosionCount + 1)
    ELSE currentRolls

RECURSIVE explodeLoop(_, _, _, _)
\* The while loop of explodeDice for one die; stream[n] is the value the
\* n-th call of rollSingleDie in the loop returns.
explodeLoop(currentRolls, sides, stream, explosionCount) ==
    IF Last(currentRolls) = sides /\ explosionCount < MAX_EXPLOSION_DEPTH
    THEN explodeLoop(Append(currentRolls, stream[explosionCount + 1]), sides,
                     stream, explosionCount + 1)
    ELSE currentRolls

\* The dice for which explodeDice enters its loop
explodeNeeded(d) == {k \in 1..Len(d) : Last(d[k].rolls) = d[k].sides}

\* explodeDice: special starts as null for every die and becomes 'exploded'
\* in the loop body.
explodeDice(d, streams) ==
    [k \in 1..Len(d) |->
        LET currentRolls ==
                explodeLoop(d[k].rolls, d[k].sides,
                            IF k \in DOMAIN streams THEN streams[k] ELSE <<>>, 0)
        IN [d[k] EXCEPT !.rolls = currentRolls,
                        !.special = IF Len(currentRolls) > Len(d[k].rolls)
                                    THEN "exploded" ELSE NULL]]

\* applyMinValue comparing the sum of the rolls with minValue
applyMinValue_onSum(d, minValue) ==
    [k \in 1..Len(d) |->
        IF SumSeq(d[k].rolls) < minValue
        THEN [d[k] EXCEPT !.value = minValue,
                          !.special = "min-" \o ToString(minValue)]
        ELSE d[k]]

\* applyMinValue
applyMinValue(d, minValue) ==
    [k \in 1..Len(d) |->
        IF Last(d[k].rolls) < minValue
        THEN [d[k] EXCEPT !.value = minValue,
                          !.special = "min-" \o ToString(minValue)]
        ELSE d[k]]

\* The sort of the keep stage comparing the dice by their initial roll
sortedByMax_initialRoll(d, highestFirst) ==
    LET cmp(a, b) == IF highestFirst
                     THEN b.rolls[1] - a.rolls[1]
                     ELSE a.rolls[1] - b.rolls[1]
        pos(k) == 1 + Cardinality({m \in 1..Len(d) :
                        \/ cmp(d[m], d[k]) < 0
                        \/ cmp(d[m], d[k]) = 0 /\ m < k})
    IN [p \in 1..Len(d) |-> d[CHOOSE k \in 1..Len(d) : pos(k) = p]]

\* [...dice].sort(cmp) for the comparator b.max - a.max (highestFirst) or
\* a.max - b.max; Array.prototype.sort is stable, so a die goes to the
\* position after the dice that compare before it and the earlier dice
\* that compare equal to it.
sortedByMax(d, highestFirst) ==
    LET cmp(a, b) == IF highestFirst
                     THEN MaxOf(b.rolls) - MaxOf(a.rolls)
                     ELSE MaxOf(a.rolls) - MaxOf(b.rolls)
        pos(k) == 1 + Cardinality({m \in 1..Len(d) :
                        \/ cmp(d[m], d[k]) < 0
                        \/ cmp(d[m], d[k]) = 0 /\ m < k})
    IN [p \in 1..Len(d) |-> d[CHOOSE k \in 1..Len(d) : pos(k) = p]]

\* sortedDice.findIndex(d => d.die === die.die && d.sides === die.sides &&
\*                           d.rolls.every((r, i) => r === die.rolls[i])),
\* 0-based, -1 when no element matches
findIndex(sortedDice, die) ==
    LET match(e) == /\ e.die = die.die
                    /\ e.sides = die.sides
                    /\ \A n \in 1..Len(e.rolls) :
                          n <= Len(die.rolls) /\ e.rolls[n] = die.rolls[n]
        hits == {p \in 1..Len(sortedDice) : match(sortedDice[p])}
    IN IF hits = {} THEN -1
       ELSE (CHOOSE p \in hits : \A q \in hits : p <= q) - 1

\* keepHighestDice with the comparator of keepLowestDice
keepHighestDice_ascending(d, count) ==
    LET sortedDice == sortedByMax(d, FALSE)
    IN [k \in 1..Len(d) |->
          [d[k] EXCEPT !.kept = findIndex(sortedDice, d[k]) < count]]

\* keepHighestDice mapping over sortedDice instead of dice
keepHighestDice_sortedOrder(d, count) ==
    LET sortedDice == sortedByMax(d, TRUE)
    IN [k \in 1..Len(d) |-> [sortedDice[k] EXCEPT !.kept = (k - 1) < count]]

\* keepHighestDice
keepHighestDice(d, count) ==
    LET sortedDice == sortedByMax(d, TRUE)
    IN [k \in 1..Len(d) |->
          [d[k] EXCEPT !.kept = findIndex(sortedDice, d[k]) < count]]

\* keepLowestDice with the comparator of keepHighestDice
keepLowestDice_descending(d, count) ==
    LET sortedDice == sortedByMax(d, TRUE)
    IN [k \in 1..Len(d) |->
          [d[k] EXCEPT !.kept = findIndex(sortedDice, d[k]) < count]]

\* keepLowestDice
keepLowestDice(d, count) ==
    LET sortedDice == sortedByMax(d, FALSE)
    IN [k \in 1..Len(d) |->
          [d[k] EXCEPT !.kept = findIndex(sortedDice, d[k]) < count]]

\* The keep stage of rollDice: only keep_highest and keep_lowest are read
keepStage(d, params) ==
    IF Has(params.keep_highest) THEN keepHighestDice(d, Get(params.keep_highest))
    ELSE IF Has(params.keep_lowest) THEN keepLowestDice(d, Get(params.keep_lowest))
    ELSE d

\* The value rollDice gives one die in its final dice.map
finalValue(die) ==
    IF die.value > 0 THEN die.value
    ELSE IF die.special = "exploded" THEN SumSeq(die.rolls)
    ELSE IF die.special = "rerolled" THEN Last(die.rolls)
    ELSE die.rolls[1]

\* The final dice.map of rollDice
finalizeDice(d) == [k \in 1..Len(d) |-> [d[k] EXCEPT !.value = finalValue(d[k])]]

\* countSuccesses looking at the kept dice only
countSuccesses_keptOnly(d, targetNumber) ==
    Cardinality({k \in 1..Len(d) :
        d[k].kept /\
        (IF d[k].value > 0 THEN d[k].value ELSE MaxOf(d[k].rolls)) >= targetNumber})

\* countSuccesses
countSuccesses(d, targetNumber) ==
    Cardinality({k \in 1..Len(d) :
        (IF d[k].value > 0 THEN d[k].value ELSE MaxOf(d[k].rolls)) >= targetNumber})

RECURSIVE keptSum_noFilter(_)
\* keptSum without the filter on kept
keptSum_noFilter(d) ==
    IF d = <<>> THEN 0
    ELSE IF Len(d) = 1 THEN d[1].value
    ELSE keptSum_noFilter(SubSeq(d, 1, Len(d) \div 2))
         + keptSum_noFilter(SubSeq(d, Len(d) \div 2 + 1, Len(d)))

\* dice.filter((d) => d.kept).reduce((sum, die) => sum + die.value, 0);
\* the sum is taken half by half to keep the evaluation shallow.
RECURSIVE keptSum(_)
keptSum(d) ==
    IF d = <<>> THEN 0
    ELSE IF Len(d) = 1 THEN (IF d[1].kept THEN d[1].value ELSE 0)
    ELSE keptSum(SubSeq(d, 1, Len(d) \div 2))
         + keptSum(SubSeq(d, Len(d) \div 2 + 1, Len(d)))

\* The total computed by rollDice
rollTotal(d, params) ==
    IF Has(params.target_number)
    THEN countSuccesses(d, Get(params.target_number))
    ELSE keptSum(d) + OrElse(params.modifier, 0)

RECURSIVE join(_, _)
\* Array.prototype.join on a list of integers: the decimal numerals of the
\* values, separated by sep
join(values, sep) ==
    IF Len(values) = 0 THEN ""
    ELSE IF Len(values) = 1 THEN ToString(values[1])
    ELSE ToString(values[1]) \o sep \o join(Tail(values), sep)

\* generateOperation with the modifier printed without its sign character
generateOperation_unsigned(params) ==
    ToString(params.dice_count) \o "d" \o ToString(params.dice_sides)
    \o (IF Has(params.keep_highest) THEN "kh" \o ToString(Get(params.keep_highest))
        ELSE IF Has(params.keep_lowest) THEN "kl" \o ToString(Get(params.keep_lowest))
        ELSE "")
    \o (IF Len(OrElse(params.reroll, <<>>)) > 0
        THEN "r" \o join(Get(params.reroll), "") ELSE "")
    \o (IF OrElse(params.exploding, FALSE) THEN "!" ELSE "")
    \o (IF Has(params.min_value) THEN "min" \o ToString(Get(params.min_value)) ELSE "")
    \o (IF Has(params.target_number)
        THEN ">=" \o ToString(Get(params.target_number)) ELSE "")
    \o (IF OrElse(params.modifier, 0) # 0 THEN ToString(Get(params.modifier)) ELSE "")

\* generateOperation: the dice notation of a configuration.  Each test is the
\* truthiness test of the code: keep_highest before keep_lowest, a reroll
\* list with at least one value, exploding true, a modifier other than 0.
\* The modifier is printed by the template, a negative one with its minus
\* sign, a positive one after the sign "+".
generateOperation(params) ==
    ToString(params.dice_count) \o "d" \o ToString(params.dice_sides)
    \o (IF Has(params.keep_highest) THEN "kh" \o ToString(Get(params.keep_highest))
        ELSE IF Has(params.keep_lowest) THEN "kl" \o ToString(Get(params.keep_lowest))
        ELSE "")
    \o (IF Len(OrElse(params.reroll, <<>>)) > 0
        THEN "r" \o join(Get(params.reroll), "") ELSE "")
    \o (IF OrElse(params.exploding, FALSE) THEN "!" ELSE "")
    \o (IF Has(params.min_value) THEN "min" \o ToString(Get(params.min_value)) ELSE "")
    \o (IF Has(params.target_number)
        THEN ">=" \o ToString(Get(params.target_number)) ELSE "")
    \o (IF OrElse(params.modifier, 0) # 0
        THEN (IF Get(params.modifier) > 0 THEN "+" ELSE "")
             \o ToString(Get(params.modifier))
        ELSE "")

\* generateDescription with the reroll values joined as in the notation and
\* the modifier printed as it is
generateDescription_asNotation(params) ==
    "Rolled " \o ToString(params.dice_count) \o "d" \o ToString(params.dice_sides)
    \o (IF Has(params.keep_highest)
        THEN ", keeping highest " \o ToString(Get(params.keep_highest))
        ELSE IF Has(params.keep_lowest)
        THEN ", keeping lowest " \o ToString(Get(params.keep_lowest))
        ELSE "")
    \o (IF Len(OrElse(params.reroll, <<>>)) > 0
        THEN ", rerolling " \o join(Get(params.reroll), "") \o "s"
        ELSE "")
    \o (IF OrElse(params.exploding, FALSE)
        THEN ", exploding on " \o ToString(params.dice_sides) \o "s" ELSE "")
    \o (IF Has(params.min_value)
        THEN ", minimum value " \o ToString(Get(params.min_value)) ELSE "")
    \o (IF Has(params.target_number)
        THEN ", counting successes >= " \o ToString(Get(params.target_number))
        ELSE "")
    \o (IF OrElse(params.modifier, 0) # 0
        THEN IF Get(params.modifier) > 0
             THEN ", adding " \o ToString(Get(params.modifier))
             ELSE ", subtracting " \o ToString(Get(params.modifier))
        ELSE "")

\* generateDescription: the sentence describing a configuration, with the
\* same tests as generateOperation
generateDescription(params) ==
    "Rolled " \o ToString(params.dice_count) \o "d" \o ToString(params.dice_sides)
    \o (IF Has(params.keep_highest)
        THEN ", keeping highest " \o ToString(Get(params.keep_highest))
        ELSE IF Has(params.keep_lowest)
        THEN ", keeping lowest " \o ToString(Get(params.keep_lowest))
        ELSE "")
    \o (IF Len(OrElse(params.reroll, <<>>)) > 0
        THEN IF Len(Get(params.reroll)) = 1
             THEN ", rerolling " \o ToString(Get(params.reroll)[1]) \o "s"
             ELSE ", rerolling " \o join(Get(params.reroll), ", ") \o "s"
        ELSE "")
    \o (IF OrElse(params.exploding, FALSE)
        THEN ", exploding on " \o ToString(params.dice_sides) \o "s" ELSE "")
    \o (IF Has(params.min_value)
        THEN ", minimum value " \o ToString(Get(params.min_value)) ELSE "")
    \o (IF Has(params.target_number)
        THEN ", counting successes >= " \o ToString(Get(params.target_number))
        ELSE "")
    \o (IF OrElse(params.modifier, 0) # 0
        THEN IF Get(params.modifier) > 0
             THEN ", adding " \o ToString(Get(params.modifier))
             ELSE ", subtracting " \o ToString(0 - Get(params.modifier))
        ELSE "")

\* The object rollDice returns, for the finalized dice d.  It has the keys
\* total, successes and total_dice (both only in target-number mode), dice,
\* operation and description; no other property of params is copied into it.
rollResult(d, params) ==
    [total |-> rollTotal(d, params),
     successes |-> IF Has(params.target_number)
                   THEN {countSuccesses(d, Get(params.target_number))} ELSE {},
     total_dice |-> IF Has(params.target_number) THEN {Len(d)} ELSE {},
     dice |-> d,
     operation |-> generateOperation(params),
     description |-> generateDescription(params),
     label |-> {}]

\* rollDice as a function of the values rollSingleDie returns: draw for the
\* initial roll, redraw in rerollDice, streams in explodeDice
rollDice(params, draw, redraw, streams) ==
    LET rolled == initialDice(params.dice_count, params.dice_sides, draw)
        reroll == OrElse(params.reroll, <<>>)
        rerolled == IF Len(reroll) > 0 THEN rerollDice(rolled, reroll, redraw)
                    ELSE rolled
        exploded == IF OrElse(params.exploding, FALSE)
                    THEN explodeDice(rerolled, streams) ELSE rerolled
        floored == IF Has(params.min_value)
                   THEN applyMinValue(exploded, Get(params.min_value))
                   ELSE exploded
    IN rollResult(finalizeDice(keepStage(floored, params)), params)

-----------------------------------------------------------------------------
(* src/dice/validation.ts *)

\* rollDiceSchema with the drop refinements written like the keep ones
rollDiceSchema_dropUpToCount(p) ==
    /\ p.dice_count >= 1 /\ p.dice_count <= 1000
    /\ p.dice_sides >= 1 /\ p.dice_sides <= 100
    /\ \A v \in p.keep_highest \cup p.keep_lowest \cup p.drop_highest
              \cup p.drop_lowest \cup p.target_number \cup p.min_value : v > 0
    /\ ~(Has(p.keep_highest) /\ Has(p.keep_lowest))
    /\ ~(Has(p.drop_highest) /\ Has(p.drop_lowest))
    /\ ~((Has(p.keep_highest) \/ Has(p.keep_lowest))
          /\ (Has(p.drop_highest) \/ Has(p.drop_lowest)))
    /\ \A v \in p.keep_highest : ~(v > p.dice_count)
    /\ \A v \in p.keep_lowest : ~(v > p.dice_count)
    /\ \A v \in p.drop_highest : ~(v > p.dice_count)
    /\ \A v \in p.drop_lowest : ~(v > p.dice_count)
    /\ \A r \in p.reroll : ~(\E k \in 1..Len(r) : r[k] < 1 \/ r[k] > p.dice_sides)
    /\ \A v \in p.target_number : ~(v > p.dice_sides)
    /\ \A v \in p.min_value : ~(v > p.dice_sides)

\* rollDiceSchema.parse succeeds: the field checks of the object schema and
\* every refinement pass.  The values of the model are integers, booleans
\* and strings of the declared types, so only the range checks can fail.
rollDiceSchema(p) ==
    /\ p.dice_count >= 1 /\ p.dice_count <= 1000
    /\ p.dice_sides >= 1 /\ p.dice_sides <= 100
    /\ \A v \in p.keep_highest \cup p.keep_lowest \cup p.drop_highest
              \cup p.drop_lowest \cup p.target_number \cup p.min_value : v > 0
    /\ ~(Has(p.keep_highest) /\ Has(p.keep_lowest))
    /\ ~(Has(p.drop_highest) /\ Has(p.drop_lowest))
    /\ ~((Has(p.keep_highest) \/ Has(p.keep_lowest))
          /\ (Has(p.drop_highest) \/ Has(p.drop_lowest)))
    /\ \A v \in p.keep_highest : ~(v > p.dice_count)
    /\ \A v \in p.keep_lowest : ~(v > p.dice_count)
    /\ \A v \in p.drop_highest : ~(v >= p.dice_count)
    /\ \A v \in p.drop_lowest : ~(v >= p.dice_count)
    /\ \A r \in p.reroll : ~(\E k \in 1..Len(r) : r[k] < 1 \/ r[k] > p.dice_sides)
    /\ \A v \in p.target_number : ~(v > p.dice_sides)
    /\ \A v \in p.min_value : ~(v > p.dice_sides)

\* The issues rollDiceSchema.parse raises for p, each as <<path, message>>:
\* first those of the fields in the order of the object's keys, then those of
\* the refinements in the order they are chained.  A failed bound or
\* refinement does not stop the later ones.
rollDiceIssues(p) ==
    LET Issue(cond, path, message) == IF cond THEN <<>> ELSE << <<path, message>> >>
        Positive(name) ==
            Issue(\A v \in p[name] : v > 0, <<name>>, "Must be a positive integer")
    IN Issue(p.dice_count >= 1, <<"dice_count">>, "Must be at least 1")
       \o Issue(p.dice_count <= 1000, <<"dice_count">>, "Cannot exceed 1000")
       \o Issue(p.dice_sides >= 1, <<"dice_sides">>, "Must be at least 1")
       \o Issue(p.dice_sides <= 100, <<"dice_sides">>, "Cannot exceed 100")
       \o Positive("keep_highest") \o Positive("keep_lowest")
       \o Positive("drop_highest") \o Positive("drop_lowest")
       \o Positive("target_number") \o Positive("min_value")
       \o Issue(~(Has(p.keep_highest) /\ Has(p.keep_lowest)),
                <<"keep_highest", "keep_lowest">>,
                "Cannot specify both keep_highest and keep_lowest")
       \o Issue(~(Has(p.drop_highest) /\ Has(p.drop_lowest)),
                <<"drop_highest", "drop_lowest">>,
                "Cannot specify both drop_highest and drop_lowest")
       \o Issue(~((Has(p.keep_highest) \/ Has(p.keep_lowest))
                  /\ (Has(p.drop_highest) \/ Has(p.drop_lowest))),
                <<"keep_highest", "keep_lowest", "drop_highest", "drop_lowest">>,
                "Cannot specify both keep and drop operations")
       \o Issue(\A v \in p.keep_highest : ~(v > p.dice_count), <<"keep_highest">>,
                "keep_highest cannot exceed dice_count")
       \o Issue(\A v \in p.keep_lowest : ~(v > p.dice_count), <<"keep_lowest">>,
                "keep_lowest cannot exceed dice_count")
       \o Issue(\A v \in p.drop_highest : ~(v >= p.dice_count), <<"drop_highest">>,
                "drop_highest must be less than dice_count")
       \o Issue(\A v \in p.drop_lowest : ~(v >= p.dice_count), <<"drop_lowest">>,
                "drop_lowest must be less than dice_count")
       \o Issue(\A r \in p.reroll :
                   ~(\E k \in 1..Len(r) : r[k] < 1 \/ r[k] > p.dice_sides),
                <<"reroll">>, "Reroll values must be within range of the die sides")
       \o Issue(\A v \in p.target_number : ~(v > p.dice_sides), <<"target_number">>,
                "Target number cannot exceed the number of sides")
       \o Issue(\A v \in p.min_value : ~(v > p.dice_sides), <<"min_value">>,
                "Minimum value cannot exceed the number of sides")

RECURSIVE rollsIssues(_, _)
\* The issues of the entries k.. of the array rolls, with the path of each
\* below "rolls" and the entry's index
rollsIssues(rolls, k) ==
    IF k > Len(rolls) THEN <<>>
    ELSE [n \in 1..Len(rollDiceIssues(rolls[k])) |->
             << <<"rolls", ToString(k - 1)>> \o rollDiceIssues(rolls[k])[n][1],
                rollDiceIssues(rolls[k])[n][2] >>]
         \o rollsIssues(rolls, k + 1)

\* The issues rollMultipleSchema.parse raises for a
rollMultipleIssues(a) ==
    rollsIssues(a.rolls, 1)
    \o (IF Len(a.rolls) >= 1 THEN <<>>
        ELSE << << <<"rolls">>, "Must include at least one roll configuration" >> >>)
    \o (IF \A c \in a.count : c > 0 THEN <<>>
        ELSE << << <<"count">>, "Must be a positive integer" >> >>)

RECURSIVE joinPath(_)
\* err.path.join('.')
joinPath(path) ==
    IF Len(path) = 0 THEN ""
    ELSE IF Len(path) = 1 THEN path[1]
    ELSE path[1] \o "." \o joinPath(Tail(path))

\* getValidRange(path): the joined path contains "dice_count" or "dice_sides"
\* exactly when one of its elements is that key
getValidRange(path) ==
    IF \E n \in 1..Len(path) : path[n] = "dice_count" THEN {"1-1000"}
    ELSE IF \E n \in 1..Len(path) : path[n] = "dice_sides" THEN {"1-100"}
    ELSE {}

\* errorDetails with the fallback the code has for errors that are not ZodErrors
errorDetails_fallback(issues) ==
    <<[parameter |-> "unknown", issue |-> "An unexpected validation error occurred",
       valid_range |-> {}]>>

\* The ErrorDetail array validateRollDiceParams and validateRollMultipleParams
\* build from the issues
errorDetails(issues) ==
    [n \in 1..Len(issues) |->
        [parameter |-> IF joinPath(issues[n][1]) = "" THEN "unknown"
                       ELSE joinPath(issues[n][1]),
         issue |-> issues[n][2],
         valid_range |-> getValidRange(issues[n][1])]]

\* validateRollDiceParams(params).success
validateRollDiceParams(p) == rollDiceSchema(p)

\* rollMultipleSchema.parse succeeds
rollMultipleSchema(a) ==
    /\ Len(a.rolls) >= 1
    /\ \A k \in 1..Len(a.rolls) : rollDiceSchema(a.rolls[k])
    /\ \A c \in a.count : c > 0

\* validateRollMultipleParams(params).success
validateRollMultipleParams(a) == rollMultipleSchema(a)

-----------------------------------------------------------------------------
(* The explored inputs *)

\* A roll configuration with no optional parameter set
Plain(c, s) ==
    [dice_count |-> c, dice_sides |-> s, modifier |-> {}, keep_highest |-> {},
     keep_lowest |-> {}, drop_highest |-> {}, drop_lowest |-> {}, reroll |-> {},
     exploding |-> {}, target_number |-> {}, min_value |-> {}, label |-> {}]

OptionNames ==
    {"modifier", "keep_highest", "keep_lowest", "drop_highest", "drop_lowest",
     "reroll", "exploding", "target_number", "min_value", "label"}

Modifiers == {-2, 3}
Rerolls == {<<1>>, <<MaxSides>>, <<2, 1>>}
Labels == {"Attack"}

\* The values tried for an optional parameter that is set
OptionValues(name) ==
    CASE name = "modifier" -> Modifiers
      [] name \in {"keep_highest", "keep_lowest", "drop_highest", "drop_lowest"}
            -> 1..MaxDice
      [] name = "reroll" -> Rerolls
      [] name = "exploding" -> {TRUE}
      [] name \in {"target_number", "min_value"} -> 1..MaxSides
      [] name = "label" -> Labels

\* The configurations c d s that set exactly the options in S
ConfigsWith(c, s, S) ==
    LET V(name) == IF name \in S THEN {{v} : v \in OptionValues(name)} ELSE {{}}
    IN {[dice_count |-> c, dice_sides |-> s, modifier |-> m, keep_highest |-> kh,
         keep_lowest |-> kl, drop_highest |-> dh, drop_lowest |-> dl,
         reroll |-> r, exploding |-> e, target_number |-> t, min_value |-> mv,
         label |-> l] :
          m \in V("modifier"), kh \in V("keep_highest"), kl \in V("keep_lowest"),
          dh \in V("drop_highest"), dl \in V("drop_lowest"), r \in V("reroll"),
          e \in V("exploding"), t \in V("target_number"), mv \in V("min_value"),
          l \in V("label")}

\* The sets of options tried together
OptionSets == {T \in SUBSET OptionNames : Cardinality(T) <= MaxOptions}

\* The shapes c d s tried
Shapes == {sh \in (1..MaxDice) \X (1..MaxSides) : sh[1] * sh[2] <= MaxPips}

\* Configurations at the limits the schema sets, and with a parameter given
\* the value that stands for its absence
BoundaryConfigs ==
    {Plain(c, 1) : c \in {0, 1000, 1001}}
    \cup {Plain(1, s) : s \in {0, 100, 101}}
    \cup {[Plain(2, 2) EXCEPT ![name] = {0}] :
             name \in {"keep_highest", "keep_lowest", "drop_highest", "drop_lowest",
                       "target_number", "min_value"}}
    \cup {[Plain(2, 2) EXCEPT !.reroll = {r}] : r \in {<<>>, <<0>>, <<3>>, <<1, 3>>}}
    \cup {[Plain(2, 2) EXCEPT !.modifier = {0}], [Plain(2, 2) EXCEPT !.exploding = {FALSE}]}

\* The roll configurations tried as entries of the rolls list
MultiParamSet ==
    {Plain(1, 1), Plain(1, 2), [Plain(1, 1) EXCEPT !.label = {"Attack"}],
     [Plain(2, 1) EXCEPT !.drop_lowest = {2}]}

RECURSIVE SeqsUpTo(_, _)
\* The sequences over S of length at most n
SeqsUpTo(S, n) ==
    IF n = 0 THEN {<<>>}
    ELSE LET shorter == SeqsUpTo(S, n - 1)
         IN shorter \cup {Append(q, x) : q \in {t \in shorter : Len(t) = n - 1}, x \in S}

\* The arguments tried for roll_multiple
MultiArgSet ==
    {[rolls |-> r, count |-> c] :
        r \in SeqsUpTo(MultiParamSet, MaxRolls), c \in Opt(0..MaxRepeat)}

\* The runs of draws tried for a die that explodes: k maximum draws, then
\* x for ever (x = sides: the die never stops exploding by itself)
BurstLengths == 0..MaxBurst \cup {MAX_EXPLOSION_DEPTH - 1}
ExplosionStreams(sides) ==
    {[n \in 1..(MAX_EXPLOSION_DEPTH + 1) |-> IF n <= k THEN sides ELSE x] :
        k \in BurstLengths, x \in rollSingleDie(sides)}

-----------------------------------------------------------------------------
(* The tool handlers of src/server.ts; the roll_dice and roll_multiple      *)
(* branches of POST /rpc in src/transports/http.ts run the same steps.      *)

\* The configuration the handler passes to rollDice next
CurParams == IF tool = "roll_dice" THEN args ELSE args.rolls[j]

\* validatedParams.count || 1
RepeatCount == IF tool = "roll_dice" THEN 1 ELSE LET c == OrElse(args.count, 0)
                                                  IN IF c = 0 THEN 1 ELSE c

\* The rolls the handler iterates over
RollList == IF tool = "roll_dice" THEN <<args>> ELSE args.rolls

\* The loops nested the other way round: each entry count times in a row
loopStep_entryRepeated(ii, jj, len, count) ==
    IF ii + 1 < count THEN <<ii + 1, jj, FALSE>>
    ELSE IF jj < len THEN <<0, jj + 1, FALSE>>
    ELSE <<ii, jj, TRUE>>

\* The nested loops of the roll_multiple handler,
\*   for (let i = 0; i < count; i++) for (const rollParams of rolls) ...
\* after the body has run at repetition ii (0-based) and position jj
\* (1-based) of a list of length len: the next <<repetition, position>> and
\* whether both loops are finished.
loopStep(ii, jj, len, count) ==
    IF jj < len THEN <<ii, jj + 1, FALSE>>
    ELSE IF ii + 1 < count THEN <<ii + 1, 1, FALSE>>
    ELSE <<ii, jj, TRUE>>

-----------------------------------------------------------------------------
(* src/transports/http.ts *)

\* A store with no entry ({} in the code)
EmptyStore == [c \in {} |-> 0]

\* checkRateLimit without the update of lastRequestTime on an admitted request
checkRateLimit_noUpdate(store, clientId, t) ==
    IF clientId \notin DOMAIN store
    THEN <<TRUE, [c \in DOMAIN store \cup {clientId} |->
                     IF c = clientId THEN t ELSE store[c]]>>
    ELSE IF t - store[clientId] < RATE_LIMIT_MS
         THEN <<FALSE, store>>
         ELSE <<TRUE, store>>

\* checkRateLimit recording the time of a rejected request as well
checkRateLimit_touchOnReject(store, clientId, t) ==
    IF clientId \notin DOMAIN store
    THEN <<TRUE, [c \in DOMAIN store \cup {clientId} |->
                     IF c = clientId THEN t ELSE store[c]]>>
    ELSE <<~(t - store[clientId] < RATE_LIMIT_MS), [store EXCEPT ![clientId] = t]>>

\* checkRateLimit(clientId) at time t: <<the value returned, the store after>>
checkRateLimit(store, clientId, t) ==
    IF clientId \notin DOMAIN store
    THEN <<TRUE, [c \in DOMAIN store \cup {clientId} |->
                     IF c = clientId THEN t ELSE store[c]]>>
    ELSE IF t - store[clientId] < RATE_LIMIT_MS
         THEN <<FALSE, store>>
         ELSE <<TRUE, [store EXCEPT ![clientId] = t]>>

\* canClientConnect rejecting only above the cap
canClientConnect_aboveCap(active) == ~(Cardinality(DOMAIN active) > MAX_CLIENTS)

\* canClientConnect
canClientConnect(active) == ~(Cardinality(DOMAIN active) >= MAX_CLIENTS)

\* addActiveClient at time t
addActiveClient(active, clientId, endpoint, t) ==
    [c \in DOMAIN active \cup {clientId} |->
        IF c = clientId THEN [endpoint |-> endpoint, connectedAt |-> t]
        ELSE active[c]]

\* removeActiveClient
removeActiveClient(active, clientId) ==
    [c \in DOMAIN active \ {clientId} |-> active[c]]

\* The body of the first setInterval callback, run at time t
rateLimitCleanup(store, t) ==
    [c \in {x \in DOMAIN store : ~(t - store[x] > 60000)} |-> store[c]]

\* The body of the second setInterval callback, run at time t
activeClientsCleanup(active, t) ==
    [c \in {x \in DOMAIN active : ~(t - active[x].connectedAt > 300000)} |->
        active[c]]

\* The request bodies tried on POST /rpc.  object: the body is a JSON object;
\* method, name: body.method and body.params.name when present.
Body(object, method, name, arguments) ==
    [object |-> object, method |-> method, name |-> name, arguments |-> arguments]

ToolCall(name, arguments) == Body(TRUE, {"tools/call"}, {name}, arguments)

RpcBodies ==
    {Body(FALSE, {}, {}, <<>>),
     Body(TRUE, {}, {}, <<>>),
     Body(TRUE, {"tools/list"}, {}, <<>>),
     Body(TRUE, {"tools/call"}, {}, <<>>),
     ToolCall("roll_percentile", <<>>),
     ToolCall("roll_dice", Plain(1, 2)),
     ToolCall("roll_dice", Plain(0, 6)),
     ToolCall("roll_dice", Plain(1001, 1)),
     ToolCall("roll_multiple", [rolls |-> <<Plain(1, 1), Plain(2, 1)>>, count |-> {2}]),
     ToolCall("roll_multiple", [rolls |-> <<Plain(1, 1), Plain(1, 101)>>, count |-> {}])}

\* The error the /rpc handler answers with before it reaches an await, if any
syncReject(body) ==
    IF ~body.object THEN {"Invalid JSON-RPC request"}
    ELSE IF ~Has(body.method) THEN {"Invalid JSON-RPC request"}
    ELSE IF Get(body.method) # "tools/call" THEN {"Unsupported method"}
    ELSE IF ~Has(body.name) THEN {"Invalid tool call"}
    ELSE IF Get(body.name) \notin {"roll_dice", "roll_multiple"} THEN {"Unknown tool"}
    ELSE {}

\* The values the calls of rollSingleDie in one rollDice(params) can return:
\* <<draw, redraw, streams>>
DrawChoices(params) ==
    UNION {UNION {{<<draw, redraw, streams>> :
                     streams \in
                        [IF OrElse(params.exploding, FALSE)
                         THEN explodeNeeded(
                                rerollDice(initialDice(params.dice_count,
                                                       params.dice_sides, draw),
                                           OrElse(params.reroll, <<>>), redraw))
                         ELSE {}
                         -> ExplosionStreams(params.dice_sides)]} :
                  redraw \in
                     [rerollNeeded(initialDice(params.dice_count,
                                               params.dice_sides, draw),
                                   OrElse(params.reroll, <<>>))
                      -> rollSingleDie(params.dice_sides)]} :
           draw \in [1..params.dice_count -> rollSingleDie(params.dice_sides)]}

\* The results rollDice(params) can return
rollDiceOutcomes(params) ==
    {rollDice(params, ch[1], ch[2], ch[3]) : ch \in DrawChoices(params)}

RECURSIVE batchResults(_, _, _, _)
\* The arrays results the loops of the roll_multiple branch can build from
\* repetition ii and position jj on
batchResults(rolls, count, ii, jj) ==
    LET step == loopStep(ii, jj, Len(rolls), count)
    IN IF step[3]
       THEN {<<r>> : r \in rollDiceOutcomes(rolls[jj])}
       ELSE {<<r>> \o rest : r \in rollDiceOutcomes(rolls[jj]),
                            rest \in batchResults(rolls, count, step[1], step[2])}

\* The messages of the exceptions rollDice is taken to throw
Exceptions == {"Maximum call stack size exceeded"}

\* The member error of a JSON-RPC response: its message and its data, which
\* is the ErrorDetail array (details) after a failed validation and a string
\* (string) in the catch block
Error(message, details, string) ==
    [message |-> message, details |-> details, string |-> string]

\* A response without the member error
NoError == Error("", <<>>, {})

\* What the tool call of a /rpc request does once the imports are loaded:
\* the response, the results in it, the number of rollDice invocations and
\* whether removeActiveClient is called
Outcome(status, code, rolled, calls, removes) ==
    [status |-> status, code |-> code, results |-> rolled, calls |-> calls,
     removes |-> removes, error |-> NoError]

\* The engine is called for every entry before the parameters are checked
toolCallOutcomes_rollsFirst(toolName, toolArgs) ==
    IF toolName = "roll_dice"
    THEN {Outcome(IF validateRollDiceParams(toolArgs) THEN 200 ELSE 400,
                  IF validateRollDiceParams(toolArgs) THEN 0 ELSE -32602,
                  IF validateRollDiceParams(toolArgs) THEN <<r>> ELSE <<>>,
                  1, validateRollDiceParams(toolArgs)) :
             r \in rollDiceOutcomes(toolArgs)}
    ELSE {Outcome(IF validateRollMultipleParams(toolArgs) THEN 200 ELSE 400,
                  IF validateRollMultipleParams(toolArgs) THEN 0 ELSE -32602,
                  IF validateRollMultipleParams(toolArgs) THEN rs ELSE <<>>,
                  Len(rs), validateRollMultipleParams(toolArgs)) :
             rs \in batchResults(toolArgs.rolls,
                                 LET c == OrElse(toolArgs.count, 0)
                                 IN IF c = 0 THEN 1 ELSE c, 0, 1)}

toolCallOutcomes(toolName, toolArgs) ==
    IF toolName = "roll_dice"
    THEN IF ~validateRollDiceParams(toolArgs)
         THEN {[Outcome(400, -32602, <<>>, 0, FALSE) EXCEPT
                  !.error = Error("Invalid parameters",
                                  errorDetails(rollDiceIssues(toolArgs)), {})]}
         ELSE {Outcome(200, 0, <<r>>, 1, TRUE) : r \in rollDiceOutcomes(toolArgs)}
    ELSE IF ~validateRollMultipleParams(toolArgs)
         THEN {[Outcome(400, -32602, <<>>, 0, FALSE) EXCEPT
                  !.error = Error("Invalid parameters",
                                  errorDetails(rollMultipleIssues(toolArgs)), {})]}
         ELSE {Outcome(200, 0, rs, Len(rs), TRUE) :
                  rs \in batchResults(toolArgs.rolls,
                                      LET c == OrElse(toolArgs.count, 0)
                                      IN IF c = 0 THEN 1 ELSE c, 0, 1)}

\* The catch block of the tool call: rollDice threw on its first invocation,
\* after the parameters passed validation.  The response carries the
\* exception's message as error.data, and removeActiveClient is called.
toolCallThrows(toolName, toolArgs) ==
    IF (IF toolName = "roll_dice" THEN validateRollDiceParams(toolArgs)
                                  ELSE validateRollMultipleParams(toolArgs))
    THEN {[Outcome(500, -32603, <<>>, 1, TRUE) EXCEPT
             !.error = Error("Internal error", <<>>, {e})] : e \in Exceptions}
    ELSE {}

\* The clients: the callers send any request at any time (one /events
\* connection and one /rpc request in flight each at a time); the others only
\* open /events, one after the other as the transport starts and before the
\* callers' first request, until the callers just fit below the cap; then
\* the last of them open and close their connections at any moment of the
\* first instant.  So the callers' requests are tried with no other client
\* connected and with the store just below the cap or at the cap.
Callers == {1}
Clients == 1..(MAX_CLIENTS + Cardinality(Callers))
Others == Clients \ Callers
OthersOpen == sseOpen \ Callers
NextOther == Cardinality(Callers) + Cardinality(OthersOpen) + 1
LastOther == Cardinality(Callers) + Cardinality(OthersOpen)
OthersTried == {0} \cup (MAX_CLIENTS - Cardinality(Callers))..MAX_CLIENTS
Settled == Cardinality(OthersOpen) \in OthersTried
CallersQuiet == DOMAIN rateLimitStore \cap Callers = {} /\ reply.client \notin Callers

\* What a handler step did: the request it served, the status and JSON-RPC
\* code it sent (0: none yet), the results in the response and the number
\* of times it invoked rollDice
Sent(clientId, endpoint, request, status, code, rolled, calls) ==
    [client |-> clientId, endpoint |-> endpoint, request |-> request,
     status |-> status, code |-> code, results |-> rolled, calls |-> calls,
     error |-> NoError]

\* The transport as createHttpTransport leaves it
HttpStart ==
    /\ now = 0
    /\ rateLimitStore = EmptyStore
    /\ activeClientsStore = EmptyStore
    /\ sseOpen = {}
    /\ pending = EmptyStore
    /\ lastRpcAdmitted = EmptyStore
    /\ reply = Sent(0, "none", <<>>, 0, 0, <<>>, 0)

\* GET /events from client c
EventsRequest(c) ==
    /\ transport = "http"
    /\ c \notin sseOpen
    /\ \/ c \in Callers /\ Settled
       \/ /\ c \in Others /\ c = NextOther /\ now = 0
          /\ CallersQuiet \/ Cardinality(OthersOpen) + Cardinality(Callers) >= MAX_CLIENTS
    /\ IF ~canClientConnect(activeClientsStore)
       THEN /\ reply' = Sent(c, "events", <<>>, 503, 0, <<>>, 0)
            /\ UNCHANGED <<rateLimitStore, activeClientsStore, sseOpen>>
       ELSE LET limit == checkRateLimit(rateLimitStore, c, now)
            IN /\ rateLimitStore' = limit[2]
               /\ IF ~limit[1]
                  THEN /\ reply' = Sent(c, "events", <<>>, 429, 0, <<>>, 0)
                       /\ UNCHANGED <<activeClientsStore, sseOpen>>
                  ELSE /\ activeClientsStore' =
                              addActiveClient(activeClientsStore, c, "sse", now)
                       /\ sseOpen' = sseOpen \cup {c}
                       /\ reply' = Sent(c, "events", <<>>, 200, 0, <<>>, 0)
    /\ UNCHANGED <<engineVars, transport, now, pending, lastRpcAdmitted>>

\* The 'close' event of the /events connection of client c
EventsClose(c) ==
    /\ transport = "http"
    /\ c \in sseOpen
    /\ \/ c \in Callers /\ Settled
       \/ /\ c \in Others /\ c = LastOther /\ now = 0
          /\ Cardinality(OthersOpen) + Cardinality(Callers) > MAX_CLIENTS
    /\ sseOpen' = sseOpen \ {c}
    /\ activeClientsStore' = removeActiveClient(activeClientsStore, c)
    /\ UNCHANGED <<engineVars, transport, now, rateLimitStore, pending,
                   lastRpcAdmitted, reply>>

\* POST /rpc from client c with the given body, up to the first await or
\* to the response when there is none on the way
RpcRequest(c, body) ==
    /\ transport = "http"
    /\ c \in Callers
    /\ Settled
    /\ c \notin DOMAIN pending
    /\ IF ~canClientConnect(activeClientsStore)
       THEN /\ reply' = Sent(c, "rpc", body, 503, 0, <<>>, 0)
            /\ UNCHANGED <<rateLimitStore, activeClientsStore, pending,
                           lastRpcAdmitted>>
       ELSE LET limit == checkRateLimit(rateLimitStore, c, now)
                added == addActiveClient(activeClientsStore, c, "rpc", now)
            IN /\ rateLimitStore' = limit[2]
               /\ IF ~limit[1]
                  THEN /\ reply' = Sent(c, "rpc", body, 429, 0, <<>>, 0)
                       /\ UNCHANGED <<activeClientsStore, pending, lastRpcAdmitted>>
                  ELSE /\ lastRpcAdmitted' =
                             [k \in DOMAIN lastRpcAdmitted \cup {c} |->
                                 IF k = c THEN now ELSE lastRpcAdmitted[k]]
                       /\ IF Has(syncReject(body))
                          THEN /\ reply' = Sent(c, "rpc", body, 400, 0, <<>>, 0)
                               /\ activeClientsStore' = removeActiveClient(added, c)
                               /\ pending' = pending
                          ELSE /\ reply' = Sent(c, "rpc", body, 0, 0, <<>>, 0)
                               /\ activeClientsStore' = added
                               /\ pending' = [k \in DOMAIN pending \cup {c} |->
                                                 IF k = c THEN body ELSE pending[k]]
    /\ UNCHANGED <<engineVars, transport, now, sseOpen>>

\* The /rpc handler of client c resumes after its imports: it validates the
\* arguments, rolls and responds, or catches what rollDice throws
RpcRun(c) ==
    /\ transport = "http"
    /\ Settled
    /\ c \in DOMAIN pending
    /\ \E out \in toolCallOutcomes(Get(pending[c].name), pending[c].arguments)
                  \cup toolCallThrows(Get(pending[c].name), pending[c].arguments) :
          /\ reply' = [Sent(c, "rpc", pending[c], out.status, out.code,
                            out.results, out.calls) EXCEPT !.error = out.error]
          /\ activeClientsStore' = IF out.removes
                                   THEN removeActiveClient(activeClientsStore, c)
                                   ELSE activeClientsStore
    /\ pending' = [k \in DOMAIN pending \ {c} |-> pending[k]]
    /\ UNCHANGED <<engineVars, transport, now, rateLimitStore, sseOpen,
                   lastRpcAdmitted>>

\* 100 ms pass
Tick ==
    /\ transport = "http"
    /\ Settled
    /\ now + 100 <= 100 * MaxTicks
    /\ now' = now + 100
    /\ UNCHANGED <<engineVars, transport, rateLimitStore, activeClientsStore,
                   sseOpen, pending, lastRpcAdmitted, reply>>

\* A little more than five minutes pass without a request
Wait ==
    /\ transport = "http"
    /\ Settled
    /\ now <= 100 * MaxTicks
    /\ now' = now + 300001
    /\ UNCHANGED <<engineVars, transport, rateLimitStore, activeClientsStore,
                   sseOpen, pending, lastRpcAdmitted, reply>>

\* The first setInterval callback fires
RateLimitCleanup ==
    /\ transport = "http"
    /\ rateLimitStore' = rateLimitCleanup(rateLimitStore, now)
    /\ rateLimitStore' # rateLimitStore
    /\ UNCHANGED <<engineVars, transport, now, activeClientsStore, sseOpen,
                   pending, lastRpcAdmitted, reply>>

\* The second setInterval callback fires
ActiveClientsCleanup ==
    /\ transport = "http"
    /\ activeClientsStore' = activeClientsCleanup(activeClientsStore, now)
    /\ activeClientsStore' # activeClientsStore
    /\ UNCHANGED <<engineVars, transport, now, rateLimitStore, sseOpen,
                   pending, lastRpcAdmitted, reply>>

Init ==
    /\ \/ /\ transport = "stdio"
          /\ pc = "validate"
          /\ \/ /\ tool = "roll_dice"
                /\ \/ \E sh \in Shapes, S \in OptionSets :
                         args \in ConfigsWith(sh[1], sh[2], S)
                   \/ args \in BoundaryConfigs
             \/ tool = "roll_multiple" /\ args \in MultiArgSet
       \/ /\ transport = "http"
          /\ pc = "idle"
          /\ tool = "none"
          /\ args = <<>>
    /\ i = 0
    /\ j = 1
    /\ dice = <<>>
    /\ results = <<>>
    /\ response = [kind |-> "none"]
    /\ callLog = <<>>
    /\ HttpStart

\* handleError(message, details): the error response of a tool handler
handleError(message, details) ==
    [kind |-> "error", message |-> message, details |-> details]

\* The handler validates its arguments; on failure it returns handleError
\* and rolls nothing.
Validate ==
    /\ pc = "validate"
    /\ IF (IF tool = "roll_dice" THEN validateRollDiceParams(args)
                                 ELSE validateRollMultipleParams(args))
       THEN /\ pc' = "roll"
            /\ response' = response
       ELSE /\ pc' = "done"
            /\ response' =
                  handleError("Invalid parameters provided",
                              errorDetails(IF tool = "roll_dice"
                                           THEN rollDiceIssues(args)
                                           ELSE rollMultipleIssues(args)))
    /\ UNCHANGED <<tool, args, i, j, dice, results, callLog, transport, httpVars>>

\* rollDice is entered with the next configuration and rolls all dice
InitialRoll ==
    /\ pc = "roll"
    /\ \E draw \in [1..CurParams.dice_count -> rollSingleDie(CurParams.dice_sides)] :
          dice' = initialDice(CurParams.dice_count, CurParams.dice_sides, draw)
    /\ callLog' = Append(callLog, j)
    /\ pc' = "reroll"
    /\ UNCHANGED <<tool, args, i, j, results, response, transport, httpVars>>

\* rollDice throws as it is entered; the catch block of the handler returns
\* handleError with the exception's message as the issue of its one detail
Throw ==
    /\ pc = "roll"
    /\ \E e \in Exceptions :
          response' = handleError("Internal server error",
                                  <<[parameter |-> "unknown", issue |-> e,
                                     valid_range |-> {}]>>)
    /\ pc' = "done"
    /\ UNCHANGED <<tool, args, i, j, dice, results, callLog, transport, httpVars>>

\* rollDice: if (reroll.length > 0) dice = rerollDice(dice, reroll)
Reroll ==
    /\ pc = "reroll"
    /\ LET reroll == OrElse(CurParams.reroll, <<>>)
       IN IF Len(reroll) > 0
          THEN \E draw \in [rerollNeeded(dice, reroll) ->
                               rollSingleDie(CurParams.dice_sides)] :
                  dice' = rerollDice(dice, reroll, draw)
          ELSE dice' = dice
    /\ pc' = "explode"
    /\ UNCHANGED <<tool, args, i, j, results, response, callLog, transport, httpVars>>

\* rollDice: if (exploding) dice = explodeDice(dice)
Explode ==
    /\ pc = "explode"
    /\ IF OrElse(CurParams.exploding, FALSE)
       THEN \E streams \in [explodeNeeded(dice) ->
                               ExplosionStreams(CurParams.dice_sides)] :
               dice' = explodeDice(dice, streams)
       ELSE dice' = dice
    /\ pc' = "min"
    /\ UNCHANGED <<tool, args, i, j, results, response, callLog, transport, httpVars>>

\* rollDice: if (min_value !== undefined) dice = applyMinValue(dice, min_value)
MinValue ==
    /\ pc = "min"
    /\ dice' = IF Has(CurParams.min_value)
               THEN applyMinValue(dice, Get(CurParams.min_value))
               ELSE dice
    /\ pc' = "keep"
    /\ UNCHANGED <<tool, args, i, j, results, response, callLog, transport, httpVars>>

\* rollDice: the keep stage
Keep ==
    /\ pc = "keep"
    /\ dice' = keepStage(dice, CurParams)
    /\ pc' = "return"
    /\ UNCHANGED <<tool, args, i, j, results, response, callLog, transport, httpVars>>

\* rollDice finalizes the dice and returns its result; the handler stores
\* it and moves on to the next entry of rolls or to the next repetition of
\* the whole list, or returns its response after the last roll.
Return ==
    /\ pc = "return"
    /\ dice' = finalizeDice(dice)
    /\ results' = Append(results, rollResult(finalizeDice(dice), CurParams))
    /\ LET step == loopStep(i, j, Len(RollList), RepeatCount)
       IN /\ i' = step[1]
          /\ j' = step[2]
          /\ IF step[3]
             THEN /\ pc' = "done"
                  /\ response' = [kind |-> "ok", results |-> results']
             ELSE /\ pc' = "roll"
                  /\ response' = response
    /\ UNCHANGED <<tool, args, callLog, transport, httpVars>>

Next ==
    \/ Validate
    \/ InitialRoll
    \/ Throw
    \/ Reroll
    \/ Explode
    \/ MinValue
    \/ Keep
    \/ Return
    \/ \E c \in Callers \cup ({NextOther} \cap Others) : EventsRequest(c)
    \/ \E c \in Callers \cup ({LastOther} \cap Others) : EventsClose(c)
    \/ \E c \in Callers, body \in RpcBodies : RpcRequest(c, body)
    \/ \E c \in Callers : RpcRun(c)
    \/ Tick
    \/ Wait
    \/ RateLimitCleanup
    \/ ActiveClientsCleanup

Spec == Init /\ [][Next]_vars

-----------------------------------------------------------------------------
(* Properties.  A result is read together with the configuration rollDice  *)
(* was given when it produced it.                                          *)

Calls == 1..Len(results)
ParamsOf(k) == RollList[callLog[k]]
DiceOf(k) == results[k].dice
Magnitude(die) == MaxOf(die.rolls)
KeptDice(d) == {n \in 1..Len(d) : d[n].kept}

RECURSIVE SumValuesIn(_, _, _, _)
\* The sum of the values of the dice of d at the positions of S in lo..hi
SumValuesIn(d, S, lo, hi) ==
    IF lo > hi THEN 0
    ELSE IF lo = hi THEN (IF lo \in S THEN d[lo].value ELSE 0)
    ELSE SumValuesIn(d, S, lo, (lo + hi) \div 2)
         + SumValuesIn(d, S, (lo + hi) \div 2 + 1, hi)

\* The sum of the values of the dice of d at the positions of S
SumValues(d, S) == SumValuesIn(d, S, 1, Len(d))

\* The die's last draw is below the min_value of p, so applyMinValue floors it
Floored(die, p) == \E v \in p.min_value : Last(die.rolls) < v

\* The die's initial roll is in the reroll set of p
InitialInReroll(die, p) == \E r \in p.reroll : includes(r, die.rolls[1])

\* C1: whenever min_value is set, every die of the result of rollDice has
\* value >= min_value.
C1_ValueAtLeastMinValue ==
    \A k \in Calls : \A v \in ParamsOf(k).min_value :
        \A n \in 1..Len(DiceOf(k)) : DiceOf(k)[n].value >= v

\* C2: a die whose initial roll was in the reroll set, that did not explode
\* and was not raised to min_value, ends with value equal to the last entry
\* of its rolls (the reroll draw).
C2_RerolledValueIsLastRoll ==
    \A k \in Calls : \A n \in 1..Len(DiceOf(k)) :
        LET die == DiceOf(k)[n]
        IN (/\ InitialInReroll(die, ParamsOf(k))
            /\ Len(die.rolls) = 2
            /\ ~Floored(die, ParamsOf(k)))
           => die.value = Last(die.rolls)

\* C3: in sum mode (target_number absent) total is the sum of value over
\* the dice with kept = TRUE plus modifier, the modifier being 0 when absent.
C3_SumModeTotal ==
    \A k \in Calls :
        ~Has(ParamsOf(k).target_number) =>
            results[k].total =
                SumValues(DiceOf(k), KeptDice(DiceOf(k)))
                + (IF Has(ParamsOf(k).modifier) THEN Get(ParamsOf(k).modifier) ELSE 0)

\* A finished roll_dice call in sum mode with a modifier, keep_highest and
\* reroll, where a die was rerolled and a die was dropped
C3_Witness ==
    /\ pc = "done" /\ tool = "roll_dice" /\ Len(results) = 1
    /\ Has(args.modifier) /\ Has(args.keep_highest) /\ Has(args.reroll)
    /\ \E n \in 1..Len(DiceOf(1)) : ~DiceOf(1)[n].kept /\ DiceOf(1)[n].value > 0
    /\ \E n \in 1..Len(DiceOf(1)) : Len(DiceOf(1)[n].rolls) = 2

\* C4: with drop_highest = n (drop_lowest = n) exactly the n dice of
\* greatest (smallest) magnitude are marked kept = FALSE, so diceCount - n
\* dice are kept.
C4_DropMarksDice ==
    \A k \in Calls :
        LET d == DiceOf(k)
            p == ParamsOf(k)
        IN /\ \A v \in p.drop_highest :
                /\ Cardinality(KeptDice(d)) = p.dice_count - v
                /\ \A a \in KeptDice(d), b \in (1..Len(d)) \ KeptDice(d) :
                      Magnitude(d[b]) >= Magnitude(d[a])
           /\ \A v \in p.drop_lowest :
                /\ Cardinality(KeptDice(d)) = p.dice_count - v
                /\ \A a \in KeptDice(d), b \in (1..Len(d)) \ KeptDice(d) :
                      Magnitude(d[b]) <= Magnitude(d[a])

\* C5: keep_highest = n on m dice yields exactly n kept dice, every kept
\* die's magnitude is >= every dropped die's, and among dice of equal
\* magnitude the die with the lower index is the one kept.
C5_KeepHighest ==
    \A k \in Calls : \A v \in ParamsOf(k).keep_highest :
        LET d == DiceOf(k)
        IN /\ Cardinality(KeptDice(d)) = v
           /\ \A a \in KeptDice(d), b \in (1..Len(d)) \ KeptDice(d) :
                 \/ Magnitude(d[a]) > Magnitude(d[b])
                 \/ Magnitude(d[a]) = Magnitude(d[b]) /\ a < b

\* A roll with keep_highest = 1 where a later die of greater magnitude is
\* kept in one call, after a rerolled die
C5_Witness ==
    /\ pc = "done" /\ tool = "roll_dice" /\ Len(results) = 1
    /\ args.keep_highest = {1} /\ args.dice_count = 2
    /\ DiceOf(1)[2].kept /\ ~DiceOf(1)[1].kept
    /\ Len(DiceOf(1)[2].rolls) = 2
    /\ Magnitude(DiceOf(1)[2]) > DiceOf(1)[2].value

\* The draws a die has before the explode stage: the initial roll and, when
\* the initial roll is in the reroll set, the reroll draw
DrawsBeforeExplode(die, p) == IF InitialInReroll(die, p) THEN 2 ELSE 1

\* C6: with exploding = true a die gains one draw each time its latest
\* entry equals dice_sides, stops at the first non-maximum draw or after 10
\* explosion draws, and a die that exploded and is not floored by min_value
\* has special = 'exploded' and value = the sum of its rolls.
C6_Exploding ==
    \A k \in Calls : \A n \in 1..Len(DiceOf(k)) :
        LET die == DiceOf(k)[n]
            p == ParamsOf(k)
            first == DrawsBeforeExplode(die, p)
            explosions == Len(die.rolls) - first
        IN p.exploding = {TRUE} =>
             /\ explosions >= 0 /\ explosions <= 10
             /\ \A m \in first..(Len(die.rolls) - 1) : die.rolls[m] = p.dice_sides
             /\ Last(die.rolls) = p.dice_sides => explosions = 10
             /\ (explosions >= 1 /\ ~Floored(die, p)) =>
                   /\ die.special = "exploded"
                   /\ die.value = SumSeq(die.rolls)

\* One result where a die stopped exploding on a non-maximum draw and
\* another die exploded 10 times
C6_Witness ==
    /\ pc = "done" /\ tool = "roll_dice" /\ Len(results) = 1
    /\ args.exploding = {TRUE} /\ args.dice_sides = 2
    /\ \E n \in 1..Len(DiceOf(1)) :
          /\ Len(DiceOf(1)[n].rolls) = 11
          /\ DiceOf(1)[n].special = "exploded"
          /\ DiceOf(1)[n].value = 22
    /\ \E n \in 1..Len(DiceOf(1)) :
          /\ DiceOf(1)[n].rolls = <<2, 2, 1>>
          /\ DiceOf(1)[n].special = "exploded"
          /\ DiceOf(1)[n].value = 5

\* C7: with target_number set, successes is the number of dice (kept or
\* not) whose value is >= target_number, total equals successes (no
\* modifier added) and total_dice equals dice_count; without target_number
\* the result has neither successes nor total_dice.
C7_TargetMode ==
    \A k \in Calls :
        LET p == ParamsOf(k)
            d == DiceOf(k)
        IN IF Has(p.target_number)
           THEN LET hits == Cardinality({n \in 1..Len(d) :
                                           d[n].value >= Get(p.target_number)})
                IN /\ results[k].successes = {hits}
                   /\ results[k].total = hits
                   /\ results[k].total_dice = {p.dice_count}
           ELSE /\ results[k].successes = {}
                /\ results[k].total_dice = {}

\* A target-number roll with a modifier and keep_highest where a dropped
\* die is counted as a success
C7_Witness ==
    /\ pc = "done" /\ tool = "roll_dice" /\ Len(results) = 1
    /\ Has(args.target_number) /\ Has(args.keep_highest) /\ Has(args.modifier)
    /\ \E n \in 1..Len(DiceOf(1)) :
          ~DiceOf(1)[n].kept /\ DiceOf(1)[n].value >= Get(args.target_number)
    /\ results[1].successes = {2}
    /\ results[1].total = 2

\* C8: the result of a roll carries the label of its configuration when one
\* is supplied and no label otherwise.
C8_LabelPassthrough ==
    \A k \in Calls : results[k].label = ParamsOf(k).label

\* C9: result.dice has dice_count entries and the entry at position n has
\* die = n.
C9_DiceInOriginalOrder ==
    \A k \in Calls :
        /\ Len(DiceOf(k)) = ParamsOf(k).dice_count
        /\ \A n \in 1..Len(DiceOf(k)) : DiceOf(k)[n].die = n

\* A result of keep_highest where the internal sort put die 2 before die 1
C9_Witness ==
    /\ pc = "done" /\ tool = "roll_dice" /\ Len(results) = 1
    /\ Has(args.keep_highest) /\ args.dice_count = 2
    /\ Magnitude(DiceOf(1)[2]) > Magnitude(DiceOf(1)[1])
    /\ sortedByMax(DiceOf(1), TRUE)[1].die = 2
    /\ DiceOf(1)[1].die = 1 /\ DiceOf(1)[2].die = 2

\* C10: roll_multiple with a list of length L and repeat count c (1 when
\* absent) invokes rollDice c * L times, invocation k (0-based) on
\* rolls[k mod L], and returns the c * L results in that order.
C10_BatchOrder ==
    tool = "roll_multiple" =>
        LET L == Len(args.rolls)
            c == IF Has(args.count) THEN Get(args.count) ELSE 1
        IN /\ Len(callLog) <= c * L
           /\ \A k \in 1..Len(callLog) : callLog[k] = ((k - 1) % L) + 1
           /\ pc = "done" /\ response.kind = "ok" =>
                /\ Len(callLog) = c * L
                /\ Len(response.results) = c * L
                /\ \A k \in 1..(c * L) :
                      LET entry == args.rolls[((k - 1) % L) + 1]
                          d == response.results[k].dice
                      IN /\ Len(d) = entry.dice_count
                         /\ \A n \in 1..Len(d) : d[n].sides = entry.dice_sides

\* A finished roll_multiple call of two different entries repeated twice
C10_Witness ==
    /\ pc = "done" /\ tool = "roll_multiple" /\ response.kind = "ok"
    /\ Len(args.rolls) = 2 /\ args.count = {2}
    /\ args.rolls[1].dice_sides # args.rolls[2].dice_sides
    /\ Len(response.results) = 4
    /\ callLog = <<1, 2, 1, 2>>

\* The roll configurations a tool call passes to validation: the arguments
\* of roll_dice, the entries of rolls of roll_multiple
ConfigsOf(toolName, toolArgs) ==
    IF toolName = "roll_dice" THEN {toolArgs}
    ELSE {toolArgs.rolls[k] : k \in 1..Len(toolArgs.rolls)}

\* The reply is the outcome of a tool call that reached validation
RanToolCall ==
    /\ transport = "http" /\ reply.endpoint = "rpc"
    /\ reply.status \notin {0, 429, 503}
    /\ syncReject(reply.request) = {}

\* C11: when a roll configuration of a tool call fails validation, rollDice
\* is never invoked and an error is returned with no result, on stdio and
\* on HTTP; one invalid entry anywhere in rolls of roll_multiple is enough.
C11_NoRollOnInvalid ==
    /\ (transport = "stdio"
         /\ \E p \in ConfigsOf(tool, args) : ~validateRollDiceParams(p))
        => /\ callLog = <<>> /\ results = <<>> /\ dice = <<>>
           /\ pc = "done" => response.kind = "error"
    /\ (RanToolCall
         /\ \E p \in ConfigsOf(Get(reply.request.name), reply.request.arguments) :
                ~validateRollDiceParams(p))
        => /\ reply.calls = 0 /\ reply.results = <<>>
           /\ reply.status = 400 /\ reply.code = -32602
    /\ (transport = "http" /\ reply.status \in {0, 429, 503})
        => reply.calls = 0 /\ reply.results = <<>>

\* A roll_multiple call over HTTP whose second entry is invalid was answered
C11_Witness ==
    /\ RanToolCall
    /\ reply.request.name = {"roll_multiple"}
    /\ Len(reply.request.arguments.rolls) = 2
    /\ validateRollDiceParams(reply.request.arguments.rolls[1])
    /\ ~validateRollDiceParams(reply.request.arguments.rolls[2])
    /\ reply.status = 400 /\ reply.calls = 0

\* The handler passed validation: it went on to roll
Accepted ==
    /\ pc # "validate"
    /\ ~(pc = "done" /\ response.kind = "error"
         /\ response.message = "Invalid parameters provided")

\* C12: validateRollDiceParams succeeds exactly when dice_count is in
\* 1..1000, dice_sides in 1..100, at most one of keep_highest, keep_lowest,
\* drop_highest, drop_lowest is set, a set keep_* is in 1..dice_count, a set
\* drop_* in 1..dice_count - 1, every reroll value in 1..dice_sides and a set
\* target_number or min_value in 1..dice_sides.
C12_ValidationRule ==
    (transport = "stdio" /\ tool = "roll_dice" /\ pc # "validate") =>
        (Accepted <=>
            /\ args.dice_count \in 1..1000
            /\ args.dice_sides \in 1..100
            /\ Cardinality({name \in {"keep_highest", "keep_lowest", "drop_highest",
                                      "drop_lowest"} : args[name] # {}}) <= 1
            /\ \A n \in args.keep_highest \cup args.keep_lowest :
                  n \in 1..args.dice_count
            /\ \A n \in args.drop_highest \cup args.drop_lowest :
                  n \in 1..(args.dice_count - 1)
            /\ \A r \in args.reroll : \A k \in 1..Len(r) : r[k] \in 1..args.dice_sides
            /\ \A v \in args.target_number \cup args.min_value :
                  v \in 1..args.dice_sides)

\* drop_highest = dice_count was rejected although no other rule is broken
C12_Witness ==
    /\ transport = "stdio" /\ tool = "roll_dice" /\ pc = "done"
    /\ response.kind = "error"
    /\ args.drop_highest = {args.dice_count}
    /\ args.dice_count = 2
    /\ \A name \in OptionNames \ {"drop_highest"} : args[name] = {}

\* A /rpc request of caller c arrives less than 200 ms after the last /rpc
\* request of c that passed admission
RpcTooSoon(c) == c \in DOMAIN lastRpcAdmitted /\ now - lastRpcAdmitted[c] < 200

\* C13 as stated: a /rpc request admitted for a caller is at least 200 ms
\* after that caller's last admitted /rpc request, and a /rpc request that
\* arrives sooner is answered 429 without any rollDice invocation.
C13_RateLimit429 ==
    [][\A c \in Callers, body \in RpcBodies :
          (RpcRequest(c, body) /\ RpcTooSoon(c)) =>
             /\ reply'.status = 429
             /\ reply'.calls = 0 /\ pending' = pending]_vars

\* C13 amended: a /rpc request that arrives less than 200 ms after the
\* caller's last admitted /rpc request is not admitted: it is answered 429,
\* or 503 when the active-clients store is full, and rollDice is not invoked
\* for it; so two admitted /rpc requests of a caller are >= 200 ms apart.
C13_RateLimitRejects ==
    [][\A c \in Callers, body \in RpcBodies :
          (RpcRequest(c, body) /\ RpcTooSoon(c)) =>
             /\ reply'.status =
                   IF Cardinality(DOMAIN activeClientsStore) >= 100 THEN 503 ELSE 429
             /\ reply'.calls = 0 /\ pending' = pending
             /\ lastRpcAdmitted' = lastRpcAdmitted]_vars

\* A /rpc request 100 ms after the caller's last admitted one was answered 429
C13_Witness ==
    /\ transport = "http" /\ reply.endpoint = "rpc" /\ reply.status = 429
    /\ reply.client \in DOMAIN lastRpcAdmitted
    /\ now - lastRpcAdmitted[reply.client] = 100
    /\ reply.calls = 0

\* C14: the active-clients store never holds more than 100 entries, and a
\* /rpc or /events request that arrives while it holds 100 is answered 503
\* with no rollDice invocation and leaves the store as it was.
C14_ClientCap ==
    /\ [](Cardinality(DOMAIN activeClientsStore) <= 100)
    /\ [][(/\ Cardinality(DOMAIN activeClientsStore) = 100
           /\ \/ \E c \in Clients : EventsRequest(c)
              \/ \E c \in Callers, body \in RpcBodies : RpcRequest(c, body))
          => /\ reply'.status = 503
             /\ reply'.calls = 0 /\ pending' = pending
             /\ activeClientsStore' = activeClientsStore
             /\ sseOpen' = sseOpen]_vars

\* A /rpc request was answered 503 with 100 entries in the store
C14_Witness ==
    /\ transport = "http"
    /\ Cardinality(DOMAIN activeClientsStore) = 100
    /\ reply.endpoint = "rpc" /\ reply.status = 503
    /\ reply.client \notin DOMAIN activeClientsStore

RECURSIVE DrawsIn(_, _, _)
\* The number of draws the dice lo..hi of d hold: the entries of their rolls
DrawsIn(d, lo, hi) ==
    IF lo > hi THEN 0
    ELSE IF lo = hi THEN Len(d[lo].rolls)
    ELSE DrawsIn(d, lo, (lo + hi) \div 2) + DrawsIn(d, (lo + hi) \div 2 + 1, hi)

\* C15: the work of rollDice is bounded whatever the draws are, also when
\* every draw is the maximum (dice_sides = 1): at every point of a call each
\* die holds at most 12 draws (1 initial, at most 1 reroll, at most 10
\* explosions), so a call consumes at most 12 * dice_count draws; every
\* iteration of the loop of explodeDice consumes one draw.
C15_DrawsBounded ==
    transport = "stdio" =>
        /\ \A n \in 1..Len(dice) : Len(dice[n].rolls) <= 12
        /\ pc \notin {"validate", "roll", "done"} =>
              DrawsIn(dice, 1, Len(dice)) <= 12 * CurParams.dice_count
        /\ \A k \in Calls :
              /\ \A n \in 1..Len(DiceOf(k)) : Len(DiceOf(k)[n].rolls) <= 12
              /\ DrawsIn(DiceOf(k), 1, Len(DiceOf(k))) <= 12 * ParamsOf(k).dice_count

\* A call with dice_sides = 1, where every draw is the maximum, returned
\* with 12 draws on each die
C15_Witness ==
    /\ transport = "stdio" /\ tool = "roll_dice" /\ pc = "done"
    /\ response.kind = "ok"
    /\ args.dice_sides = 1 /\ args.dice_count = 2
    /\ args.exploding = {TRUE} /\ Has(args.reroll)
    /\ \A n \in 1..2 : Len(DiceOf(1)[n].rolls) = 12
    /\ DrawsIn(DiceOf(1), 1, 2) = 24

\* C16: with exploding and min_value set, the floor looks at a die's last
\* draw: a die whose last draw is < min_value has value = min_value and
\* special = 'min-<min_value>' whatever it accumulated, and a die that
\* exploded and whose last draw is >= min_value has the sum of its rolls.
C16_FloorOnLastDraw ==
    \A k \in Calls : \A n \in 1..Len(DiceOf(k)) :
        LET die == DiceOf(k)[n]
            p == ParamsOf(k)
        IN (p.exploding = {TRUE} /\ Has(p.min_value)) =>
             /\ Last(die.rolls) < Get(p.min_value) =>
                   /\ die.value = Get(p.min_value)
                   /\ die.special = "min-" \o ToString(Get(p.min_value))
             /\ (Last(die.rolls) >= Get(p.min_value)
                 /\ Len(die.rolls) > DrawsBeforeExplode(die, p)) =>
                   /\ die.value = SumSeq(die.rolls)
                   /\ die.special = "exploded"

\* A die exploded to <<3, 1>> and was floored to min_value 2: the sum 4 is gone
C16_Witness ==
    /\ transport = "stdio" /\ tool = "roll_dice" /\ pc = "done" /\ Len(results) = 1
    /\ args.exploding = {TRUE} /\ args.min_value = {2}
    /\ DiceOf(1)[1].rolls = <<3, 1>>
    /\ DiceOf(1)[1].value = 2
    /\ DiceOf(1)[1].special = "min-2"

\* C17: the reroll stage adds exactly one draw to each die whose first roll
\* is in the reroll set, whether or not the new draw is in the set too, and
\* none to the other dice; so without exploding a die of the result has 2
\* rolls when its initial draw is in reroll and 1 otherwise.
C17_RerollOnce ==
    /\ (transport = "stdio" /\ pc = "explode") =>
          \A n \in 1..Len(dice) :
              Len(dice[n].rolls) = IF InitialInReroll(dice[n], CurParams) THEN 2 ELSE 1
    /\ \A k \in Calls : \A n \in 1..Len(DiceOf(k)) :
          (Has(ParamsOf(k).reroll) /\ ParamsOf(k).exploding # {TRUE}) =>
              Len(DiceOf(k)[n].rolls) =
                  IF InitialInReroll(DiceOf(k)[n], ParamsOf(k)) THEN 2 ELSE 1

\* A die rerolled into a value of the reroll set was not rerolled again,
\* next to a die that was not rerolled
C17_Witness ==
    /\ transport = "stdio" /\ tool = "roll_dice" /\ pc = "done" /\ Len(results) = 1
    /\ args.reroll = {<<1>>} /\ args.exploding = {}
    /\ args.dice_count = 2 /\ args.dice_sides = 2
    /\ DiceOf(1)[1].rolls = <<1, 1>>
    /\ DiceOf(1)[2].rolls = <<2>>

\* C18: keep_lowest = n on m dice yields exactly n kept dice, every kept
\* die's magnitude is <= every dropped die's, and among dice of equal
\* magnitude the die with the lower index is the one kept.
C18_KeepLowest ==
    \A k \in Calls : \A v \in ParamsOf(k).keep_lowest :
        LET d == DiceOf(k)
        IN /\ Cardinality(KeptDice(d)) = v
           /\ \A a \in KeptDice(d), b \in (1..Len(d)) \ KeptDice(d) :
                 \/ Magnitude(d[a]) < Magnitude(d[b])
                 \/ Magnitude(d[a]) = Magnitude(d[b]) /\ a < b

\* keep_lowest = 1 on two dice where the second die, rerolled from 2 to 1,
\* still has the greater magnitude: the first die is the one kept
C18_Witness ==
    /\ transport = "stdio" /\ tool = "roll_dice" /\ pc = "done" /\ Len(results) = 1
    /\ args.keep_lowest = {1} /\ args.dice_count = 2
    /\ DiceOf(1)[1].rolls = <<1>>
    /\ DiceOf(1)[2].rolls = <<2, 1>>
    /\ DiceOf(1)[1].kept /\ ~DiceOf(1)[2].kept


\* C19: the notation of every result is "<dice_count>d<dice_sides>" followed,
\* in this order, by "kh<n>" or "kl<n>" when keep_highest or keep_lowest is
\* set, "r" and the reroll values written one after another without a
\* separator when there are reroll values, "!" when exploding is on, "min<v>"
\* when min_value is set, ">=<t>" when target_number is set, and the modifier
\* as "+<m>" when it is positive, "-<|m|>" when it is negative, and nothing
\* when it is 0 or absent.
C19_NotationGrammar ==
    \A k \in Calls :
        LET p == ParamsOf(k)
            RECURSIVE written(_)
            written(v) == IF v = <<>> THEN ""
                          ELSE ToString(Head(v)) \o written(Tail(v))
            m == OrElse(p.modifier, 0)
            segments ==
                << ToString(p.dice_count) \o "d" \o ToString(p.dice_sides),
                   IF Has(p.keep_highest) THEN "kh" \o ToString(Get(p.keep_highest))
                   ELSE IF Has(p.keep_lowest)
                        THEN "kl" \o ToString(Get(p.keep_lowest)) ELSE "",
                   IF Has(p.reroll) /\ Get(p.reroll) # <<>>
                   THEN "r" \o written(Get(p.reroll)) ELSE "",
                   IF p.exploding = {TRUE} THEN "!" ELSE "",
                   IF Has(p.min_value) THEN "min" \o ToString(Get(p.min_value)) ELSE "",
                   IF Has(p.target_number)
                   THEN ">=" \o ToString(Get(p.target_number)) ELSE "",
                   IF m > 0 THEN "+" \o ToString(m)
                   ELSE IF m < 0 THEN "-" \o ToString(0 - m) ELSE "" >>
        IN results[k].operation
              = segments[1] \o segments[2] \o segments[3] \o segments[4]
                \o segments[5] \o segments[6] \o segments[7]

\* A result for 2d2 with keep_highest 1, reroll [2, 1] and modifier 3
C19_Witness ==
    \E k \in Calls :
        /\ ParamsOf(k).dice_count = 2 /\ ParamsOf(k).dice_sides = 2
        /\ ParamsOf(k).keep_highest = {1}
        /\ ParamsOf(k).reroll = {<<2, 1>>}
        /\ ParamsOf(k).modifier = {3}
        /\ results[k].operation = "2d2kh1r21+3"


\* C20: in every result whose configuration sets drop_highest = n, the
\* notation begins "<count>d<sides>dh<n>" and the description begins
\* "Rolled <count>d<sides>, dropping highest <n>"; with drop_lowest = n they
\* begin "<count>d<sides>dl<n>" and "Rolled <count>d<sides>, dropping lowest <n>".
C20_DropNotation ==
    \A k \in Calls :
        LET p == ParamsOf(k)
            shape == ToString(p.dice_count) \o "d" \o ToString(p.dice_sides)
            Begins(str, pre) ==
                Len(str) >= Len(pre) /\ SubSeq(str, 1, Len(pre)) = pre
        IN /\ \A n \in p.drop_highest :
                /\ Begins(results[k].operation, shape \o "dh" \o ToString(n))
                /\ Begins(results[k].description,
                          "Rolled " \o shape \o ", dropping highest " \o ToString(n))
           /\ \A n \in p.drop_lowest :
                /\ Begins(results[k].operation, shape \o "dl" \o ToString(n))
                /\ Begins(results[k].description,
                          "Rolled " \o shape \o ", dropping lowest " \o ToString(n))


\* C21: the description of every result is "Rolled <count>d<sides>" followed
\* by the clauses that apply, each introduced by ", ", in this order:
\* "keeping highest <n>" or "keeping lowest <n>"; "rerolling " with the reroll
\* values separated by ", " and the letter "s"; "exploding on <sides>s";
\* "minimum value <v>"; "counting successes >= <t>"; "adding <m>" for a
\* positive modifier or "subtracting <|m|>" for a negative one.
C21_DescriptionGrammar ==
    \A k \in Calls :
        LET p == ParamsOf(k)
            RECURSIVE listed(_)
            listed(v) == IF Len(v) = 1 THEN ToString(v[1])
                         ELSE ToString(Head(v)) \o ", " \o listed(Tail(v))
            m == OrElse(p.modifier, 0)
            clauses ==
                << IF Has(p.keep_highest)
                   THEN <<"keeping highest " \o ToString(Get(p.keep_highest))>>
                   ELSE IF Has(p.keep_lowest)
                        THEN <<"keeping lowest " \o ToString(Get(p.keep_lowest))>>
                        ELSE <<>>,
                   IF Has(p.reroll) /\ Get(p.reroll) # <<>>
                   THEN <<"rerolling " \o listed(Get(p.reroll)) \o "s">> ELSE <<>>,
                   IF p.exploding = {TRUE}
                   THEN <<"exploding on " \o ToString(p.dice_sides) \o "s">> ELSE <<>>,
                   IF Has(p.min_value)
                   THEN <<"minimum value " \o ToString(Get(p.min_value))>> ELSE <<>>,
                   IF Has(p.target_number)
                   THEN <<"counting successes >= " \o ToString(Get(p.target_number))>>
                   ELSE <<>>,
                   IF m > 0 THEN <<"adding " \o ToString(m)>>
                   ELSE IF m < 0 THEN <<"subtracting " \o ToString(0 - m)>> ELSE <<>> >>
            present == clauses[1] \o clauses[2] \o clauses[3] \o clauses[4]
                       \o clauses[5] \o clauses[6]
            RECURSIVE commaJoined(_)
            commaJoined(q) == IF q = <<>> THEN ""
                              ELSE ", " \o Head(q) \o commaJoined(Tail(q))
        IN results[k].description
              = "Rolled " \o ToString(p.dice_count) \o "d" \o ToString(p.dice_sides)
                \o commaJoined(present)

\* A result for 2d2 with keep_lowest 1, reroll [2, 1] and modifier -2
C21_Witness ==
    \E k \in Calls :
        /\ ParamsOf(k).dice_count = 2 /\ ParamsOf(k).dice_sides = 2
        /\ ParamsOf(k).keep_lowest = {1}
        /\ ParamsOf(k).reroll = {<<2, 1>>}
        /\ ParamsOf(k).modifier = {-2}
        /\ results[k].description
              = "Rolled 2d2, keeping lowest 1, rerolling 2, 1s, subtracting 2"


\* C22: in every result for a configuration that sets only dice_count and
\* dice_sides there are dice_count dice, each with exactly one roll between 1
\* and dice_sides, a value equal to that roll and kept = TRUE; total is the
\* sum of these rolls and lies between dice_count and dice_count * dice_sides.
C22_PlainRoll ==
    \A k \in Calls :
        LET p == ParamsOf(k)
            d == DiceOf(k)
        IN [p EXCEPT !.label = {}] = Plain(p.dice_count, p.dice_sides)
           => /\ Len(d) = p.dice_count
              /\ \A n \in 1..Len(d) :
                    /\ Len(d[n].rolls) = 1
                    /\ d[n].rolls[1] \in 1..p.dice_sides
                    /\ d[n].value = d[n].rolls[1]
                    /\ d[n].kept
              /\ results[k].total = SumValues(d, 1..Len(d))
              /\ results[k].total >= p.dice_count
              /\ results[k].total <= p.dice_count * p.dice_sides

\* A result for plain 2d2 with the rolls 1 and 2
C22_Witness ==
    \E k \in Calls :
        /\ ParamsOf(k) = Plain(2, 2)
        /\ DiceOf(k)[1].rolls = <<1>> /\ DiceOf(k)[2].rolls = <<2>>
        /\ results[k].total = 3


C24_GenericFaultResponse ==
    /\ (transport = "http" /\ reply.status = 500)
          => /\ reply.error.string \cap Exceptions = {}
             /\ \A n \in 1..Len(reply.error.details) :
                   reply.error.details[n].issue \notin Exceptions
    /\ (transport = "stdio" /\ response.kind = "error")
          => \A n \in 1..Len(response.details) :
                response.details[n].issue \notin Exceptions


\* C25: a die rerolled by the reroll stage that did not explode (its initial
\* roll is in the reroll set and it has two rolls) has special = "rerolled"
\* when the explode stage is over, and in the result unless min_value floored
\* it.
C25_ExplodeKeepsRerolled ==
    /\ (transport = "stdio" /\ pc = "min")
          => \A n \in 1..Len(dice) :
                (InitialInReroll(dice[n], CurParams) /\ Len(dice[n].rolls) = 2)
                   => dice[n].special = "rerolled"
    /\ \A k \in Calls : \A n \in 1..Len(DiceOf(k)) :
          LET die == DiceOf(k)[n]
          IN (/\ InitialInReroll(die, ParamsOf(k))
              /\ Len(die.rolls) = 2
              /\ ~Floored(die, ParamsOf(k)))
             => die.special = "rerolled"


\* C26: the stages run in the order reroll, explode, minimum value, keep.
\* While rollDice is at a stage the later stages have left no trace: before
\* the explode stage every die has its initial roll and at most the reroll
\* draw, before the minimum stage no die is floored, before the keep stage
\* every die is kept.  In every result, with exploding on, a die has
\* explosion draws exactly when its latest draw after rerolling is the
\* maximum; a die is floored exactly when its last draw after explosion is
\* below min_value; and the keep ranking compares the greatest of all the
\* rolls of each die, reroll and explosion draws included.
C26_StageOrder ==
    /\ (transport = "stdio" /\ pc \in {"reroll", "explode", "min", "keep"}) =>
          \A n \in 1..Len(dice) :
             /\ pc \in {"reroll", "explode"} =>
                   Len(dice[n].rolls) = (IF pc = "reroll" THEN 1
                                         ELSE DrawsBeforeExplode(dice[n], CurParams))
             /\ pc \in {"reroll", "explode", "min"} =>
                   dice[n].value = 0 /\ dice[n].special \in {NULL, "rerolled", "exploded"}
             /\ dice[n].kept
    /\ \A k \in Calls : \A n \in 1..Len(DiceOf(k)) :
          LET die == DiceOf(k)[n]
              p == ParamsOf(k)
              first == DrawsBeforeExplode(die, p)
          IN /\ Len(die.rolls) >= first
             /\ (Len(die.rolls) > first)
                   <=> (p.exploding = {TRUE} /\ die.rolls[first] = p.dice_sides)
             /\ \A v \in p.min_value :
                   (die.special = "min-" \o ToString(v) /\ die.value = v)
                      <=> Last(die.rolls) < v
             /\ \A v \in p.keep_highest : \A m \in 1..Len(DiceOf(k)) :
                   (die.kept /\ ~DiceOf(k)[m].kept)
                      => Magnitude(die) >= Magnitude(DiceOf(k)[m])
             /\ \A v \in p.keep_lowest : \A m \in 1..Len(DiceOf(k)) :
                   (die.kept /\ ~DiceOf(k)[m].kept)
                      => Magnitude(die) <= Magnitude(DiceOf(k)[m])

\* A result of 2d2 with reroll [2, 1], exploding and keep_highest 1: the
\* first die was rerolled from 1 to 1 and did not explode, the second was
\* rerolled from 1 into the maximum, exploded and is the one kept
C26_Witness ==
    \E k \in Calls :
        /\ ParamsOf(k).reroll = {<<2, 1>>}
        /\ ParamsOf(k).exploding = {TRUE}
        /\ ParamsOf(k).keep_highest = {1}
        /\ Len(DiceOf(k)) = 2
        /\ DiceOf(k)[1].rolls = <<1, 1>>
        /\ DiceOf(k)[2].rolls = <<1, 2, 1>>
        /\ DiceOf(k)[2].kept /\ ~DiceOf(k)[1].kept


\* C27: once the response to a /rpc request has been sent, the request has
\* left no entry in the active-clients store: a caller whose last /rpc
\* request has been answered and who has no /events connection open has no
\* entry, whatever the answer was.
C27_RpcEntryRemoved ==
    (/\ transport = "http"
     /\ reply.endpoint = "rpc" /\ reply.status # 0
     /\ reply.client \notin DOMAIN pending
     /\ reply.client \notin sseOpen)
    => reply.client \notin DOMAIN activeClientsStore


\* C28: every client whose /events connection is open has an entry in the
\* active-clients store.
C28_OpenSseCounted ==
    \A c \in sseOpen : c \in DOMAIN activeClientsStore


\* C29: in every result with keep_highest no dropped die has a value greater
\* than the value of a kept die, and with keep_lowest no dropped die has a
\* value smaller than the value of a kept die, whichever of reroll, exploding
\* and min_value are set as well.
C29_KeepByFinalValue ==
    \A k \in Calls :
        LET d == DiceOf(k)
            dropped == (1..Len(d)) \ KeptDice(d)
        IN /\ Has(ParamsOf(k).keep_highest)
                => \A a \in KeptDice(d), b \in dropped : d[b].value <= d[a].value
           /\ Has(ParamsOf(k).keep_lowest)
                => \A a \in KeptDice(d), b \in dropped : d[b].value >= d[a].value


\* C30: a /rpc or /events request answered 429 or 503 changes neither the
\* rate-limit store (the caller's lastRequestTime stays what it was) nor the
\* active-clients store, and opens no connection and starts no tool call.
C30_RejectionLeavesStores ==
    [][(/\ \/ \E c \in Clients : EventsRequest(c)
           \/ \E c \in Callers, body \in RpcBodies : RpcRequest(c, body)
        /\ reply'.status \in {429, 503})
       => /\ rateLimitStore' = rateLimitStore
          /\ activeClientsStore' = activeClientsStore
          /\ sseOpen' = sseOpen /\ pending' = pending]_vars

\* A request was answered 429 at a time later than the lastRequestTime the
\* rate-limit store holds for its caller, who has no entry in the
\* active-clients store
C30_Witness ==
    /\ transport = "http" /\ reply.status = 429
    /\ reply.client \in DOMAIN rateLimitStore
    /\ rateLimitStore[reply.client] < now
    /\ now - rateLimitStore[reply.client] < RATE_LIMIT_MS
    /\ reply.client \notin DOMAIN activeClientsStore

====
